---- MODULE Spec2Model ----
(***************************************************************************)
(* State-machine model of the sickness tracker's HomePage component        *)
(* (entry normalisation, create-vs-update detection, merge of saved        *)
(* entries, year fetches) together with the pure helpers it calls.         *)
(*                                                                         *)
(* JavaScript values are tagged records so that values of different        *)
(* types can be compared:                                                  *)
(*   [t |-> "undef"]  [t |-> "null"]  [t |-> "bool", b |-> TRUE]           *)
(*   [t |-> "num", n |-> 3]  [t |-> "nan"]  [t |-> "str", s |-> <<..>>]    *)
(*   [t |-> "arr", items |-> <<..>>]  [t |-> "obj", f |-> fields]          *)
(* A string is the sequence of its characters.  A Date is                  *)
(*   [t |-> "time", day |-> days since 1970-01-01, ms |-> ms of the day]   *)
(* or [t |-> "invalid"] (time value NaN).                                  *)
(***************************************************************************)
EXTENDS Integers, Sequences, FiniteSets, TLC

VARIABLES
    selectedYear,         \* useState(nowYear)
    yearsFromApi,         \* Known Years: array of years
    entries,              \* Year Collection: array of normalised entries
    busy,
    error,
    formDate,             \* Date
    isSick,
    severity,
    existingEntryNotice,  \* entry or Null
    updatePreview,        \* [existing, next, dateKey] or Null
    yearsPending,         \* the fetchYears request of the mount effect is in flight
    inflight,             \* fetchEntriesByYear / saveEntry requests, in issue order
    issued,               \* how many requests were issued after the mount
    tz,                   \* client's local offset from UTC, in minutes (east positive)
    normRaw,              \* input of a stand-alone normalizeEntry call
    normOut,              \* its result
    gridYear,             \* year prop of a stand-alone YearHeatmap
    gridEntries,          \* its entries prop
    grid,                 \* what its memos hold: weeks, monthLayout, dataPoints
    auth,                 \* App: useState(() => readPersistedAuth()), [token, user]
    localStore,           \* localStorage items auth_token, auth_user
    cookieStore,          \* document.cookie pairs auth_token, auth_user
    getMeInflight,        \* tokens of the getMe requests in flight, in issue order
    logins                \* how many logins or signups have succeeded

vars == <<selectedYear, yearsFromApi, entries, busy, error, formDate, isSick,
          severity, existingEntryNotice, updatePreview, yearsPending, inflight, issued,
          tz, normRaw, normOut, gridYear, gridEntries, grid,
          auth, localStore, cookieStore, getMeInflight, logins>>

gridVars == <<gridYear, gridEntries, grid>>

authVars == <<auth, localStore, cookieStore, getMeInflight, logins>>

homeVars == <<selectedYear, yearsFromApi, entries, busy, error, formDate, isSick,
              severity, existingEntryNotice, updatePreview, yearsPending, inflight, issued,
              tz>>

-----------------------------------------------------------------------------
(* JavaScript values *)

Undef == [t |-> "undef"]
Null == [t |-> "null"]
NaN == [t |-> "nan"]
Arr(items) == [t |-> "arr", items |-> items]
EmptyArray == Arr(<<>>)

\* Array.isArray(v)
IsArray(v) == v.t = "arr"
Bool(b) == [t |-> "bool", b |-> b]
Num(n) == [t |-> "num", n |-> n]
Str(s) == [t |-> "str", s |-> s]
Obj(f) == [t |-> "obj", f |-> f]

InvalidDate == [t |-> "invalid"]
Time(day, ms) == [t |-> "time", day |-> day, ms |-> ms]

MsPerDay == 86400000

\* ToBoolean
Truthy(v) ==
    CASE v.t = "undef" -> FALSE
      [] v.t = "null" -> FALSE
      [] v.t = "nan" -> FALSE
      [] v.t = "bool" -> v.b
      [] v.t = "num" -> v.n # 0
      [] v.t = "str" -> Len(v.s) > 0
      [] OTHER -> TRUE

\* a || b
Or(a, b) == IF Truthy(a) THEN a ELSE b

\* raw.name for a value that passed the typeof raw === 'object' test
Get(raw, name) == IF raw.t = "obj" THEN raw.f[name] ELSE Undef

Digits == <<"0", "1", "2", "3", "4", "5", "6", "7", "8", "9">>

DigitValues ==
    [c \in {"0", "1", "2", "3", "4", "5", "6", "7", "8", "9"} |->
        CHOOSE n \in 0..9 : Digits[n + 1] = c]

IsDigit(c) == c \in DOMAIN DigitValues

DigitValue(c) == DigitValues[c]

AllDigits(s) == \A i \in 1..Len(s) : IsDigit(s[i])

RECURSIVE DecimalValue(_)
DecimalValue(s) ==
    IF Len(s) = 0 THEN 0
    ELSE 10 * DecimalValue(SubSeq(s, 1, Len(s) - 1)) + DigitValue(s[Len(s)])

RECURSIVE NatToString(_)
NatToString(n) ==
    IF n < 10 THEN <<Digits[n + 1]>>
    ELSE NatToString(n \div 10) \o <<Digits[(n % 10) + 1]>>

\* String(n)
IntToString(n) == IF n < 0 THEN <<"-">> \o NatToString(-n) ELSE NatToString(n)

RECURSIVE PadStart(_, _, _)
PadStart(s, width, c) == IF Len(s) >= width THEN s ELSE PadStart(<<c>> \o s, width, c)

\* Number(v); of the strings, the empty one and the unsigned decimal numerals are
\* numeric, every other string of the model converts to NaN; of the arrays, the
\* empty one converts to 0 and the arrays of records to NaN
ToNumber(v) ==
    CASE v.t = "undef" -> NaN
      [] v.t = "null" -> Num(0)
      [] v.t = "bool" -> Num(IF v.b THEN 1 ELSE 0)
      [] v.t = "num" -> v
      [] v.t = "nan" -> NaN
      [] v.t = "str" -> IF AllDigits(v.s) THEN Num(DecimalValue(v.s)) ELSE NaN
      [] v.t = "arr" -> IF Len(v.items) = 0 THEN Num(0) ELSE NaN
      [] OTHER -> NaN

-----------------------------------------------------------------------------
(* Date arithmetic of the built-in Date object (proleptic Gregorian, UTC) *)

IsLeapYear(y) == (y % 4 = 0 /\ y % 100 # 0) \/ y % 400 = 0

DaysInMonth(y, m) ==
    IF m = 2 THEN (IF IsLeapYear(y) THEN 29 ELSE 28)
    ELSE IF m \in {4, 6, 9, 11} THEN 30 ELSE 31

\* days from 1970-01-01 to the civil day y-m-d, m in 1..12
DaysFromCivil(y, m, d) ==
    LET yy == IF m <= 2 THEN y - 1 ELSE y
        era == yy \div 400
        yoe == yy - era * 400
        mp == IF m > 2 THEN m - 3 ELSE m + 9
        doy == (153 * mp + 2) \div 5 + d - 1
        doe == yoe * 365 + yoe \div 4 - yoe \div 100 + doy
    IN  era * 146097 + doe - 719468

CivilFromDays(z) ==
    LET zz == z + 719468
        era == zz \div 146097
        doe == zz - era * 146097
        yoe == (doe - doe \div 1460 + doe \div 36524 - doe \div 146096) \div 365
        doy == doe - (365 * yoe + yoe \div 4 - yoe \div 100)
        mp == (5 * doy + 2) \div 153
        d == doy - (153 * mp + 2) \div 5 + 1
        m == IF mp < 10 THEN mp + 3 ELSE mp - 9
        y == yoe + era * 400 + (IF m <= 2 THEN 1 ELSE 0)
    IN  [y |-> y, m |-> m, d |-> d]

\* Date.UTC(year, month0, date): month0 is 0-based and, like date, may overflow
DateUTC(year, month0, date) ==
    LET y == year + (month0 \div 12)
        m == (month0 % 12) + 1
    IN  Time(DaysFromCivil(y, m, 1) + date - 1, 0)

getUTCFullYear(t) == CivilFromDays(t.day).y
getUTCMonth(t) == CivilFromDays(t.day).m - 1
getUTCDate(t) == CivilFromDays(t.day).d

\* the instant shifted by the local offset: its UTC fields are the local fields
LocalShift(t, offsetMin) ==
    LET total == t.ms + offsetMin * 60000
    IN  Time(t.day + (total \div MsPerDay), total % MsPerDay)

getFullYear(t, offsetMin) == getUTCFullYear(LocalShift(t, offsetMin))
getMonth(t, offsetMin) == getUTCMonth(LocalShift(t, offsetMin))
getDate(t, offsetMin) == getUTCDate(LocalShift(t, offsetMin))

\* a.getTime() - b.getTime() as a sign (-1, 0, 1), or NaN
TimeDiffSign(a, b) ==
    IF a.t = "invalid" \/ b.t = "invalid" THEN NaN
    ELSE IF a.day < b.day \/ (a.day = b.day /\ a.ms < b.ms) THEN Num(-1)
    ELSE IF a.day = b.day /\ a.ms = b.ms THEN Num(0)
    ELSE Num(1)

-----------------------------------------------------------------------------
(* Date <-> string conversions *)

TwoDigits(s, i) == DecimalValue(SubSeq(s, i, i + 1))

\* the YYYY-MM-DD prefix of an ISO date-time string
IsoDatePart(s) ==
    /\ Len(s) >= 10
    /\ AllDigits(SubSeq(s, 1, 4)) /\ s[5] = "-"
    /\ AllDigits(SubSeq(s, 6, 7)) /\ s[8] = "-"
    /\ AllDigits(SubSeq(s, 9, 10))
    /\ TwoDigits(s, 6) \in 1..12
    /\ TwoDigits(s, 9) \in 1..DaysInMonth(DecimalValue(SubSeq(s, 1, 4)), TwoDigits(s, 6))

\* the THH:mm:ss.sss part, characters 11..23
IsoTimePart(s) ==
    /\ Len(s) >= 23
    /\ s[11] = "T"
    /\ AllDigits(SubSeq(s, 12, 13)) /\ s[14] = ":"
    /\ AllDigits(SubSeq(s, 15, 16)) /\ s[17] = ":"
    /\ AllDigits(SubSeq(s, 18, 19)) /\ s[20] = "."
    /\ AllDigits(SubSeq(s, 21, 23))
    /\ TwoDigits(s, 12) \in 0..23 /\ TwoDigits(s, 15) \in 0..59 /\ TwoDigits(s, 18) \in 0..59

IsoDay(s) == DaysFromCivil(DecimalValue(SubSeq(s, 1, 4)), TwoDigits(s, 6), TwoDigits(s, 9))

IsoMs(s) ==
    ((TwoDigits(s, 12) * 60 + TwoDigits(s, 15)) * 60 + TwoDigits(s, 18)) * 1000
        + DecimalValue(SubSeq(s, 21, 23))

\* the +HH:mm / -HH:mm suffix, characters 24..29, as minutes east of UTC
IsoOffsetPart(s) ==
    /\ Len(s) = 29
    /\ s[24] \in {"+", "-"}
    /\ AllDigits(SubSeq(s, 25, 26)) /\ s[27] = ":" /\ AllDigits(SubSeq(s, 28, 29))
    /\ TwoDigits(s, 25) \in 0..23 /\ TwoDigits(s, 28) \in 0..59

IsoOffsetMin(s) ==
    (IF s[24] = "-" THEN -1 ELSE 1) * (TwoDigits(s, 25) * 60 + TwoDigits(s, 28))

\* Date.parse for the ECMAScript date-time string format: YYYY-MM-DD (UTC),
\* YYYY-MM-DDTHH:mm:ss.sssZ and YYYY-MM-DDTHH:mm:ss.sss+HH:mm; every other
\* string of the model is unrecognisable and gives an invalid Date
DateParse(s) ==
    IF Len(s) = 10 /\ IsoDatePart(s) THEN Time(IsoDay(s), 0)
    ELSE IF Len(s) = 24 /\ IsoDatePart(s) /\ IsoTimePart(s) /\ s[24] = "Z"
        THEN Time(IsoDay(s), IsoMs(s))
    ELSE IF Len(s) = 29 /\ IsoDatePart(s) /\ IsoTimePart(s) /\ IsoOffsetPart(s)
        THEN LocalShift(Time(IsoDay(s), IsoMs(s)), -IsoOffsetMin(s))
    ELSE InvalidDate

\* new Date(value)
NewDate(v) ==
    CASE v.t = "str" -> DateParse(v.s)
      [] v.t = "num" -> Time(v.n \div MsPerDay, v.n % MsPerDay)
      [] v.t = "null" -> Time(0, 0)
      [] v.t = "bool" -> Time(0, IF v.b THEN 1 ELSE 0)
      [] OTHER -> InvalidDate

Pad2(n) == PadStart(IntToString(n), 2, "0")

\* Date.prototype.toISOString, for years 0..9999
toISOString(t) ==
    LET c == CivilFromDays(t.day)
        h == t.ms \div 3600000
        mi == (t.ms \div 60000) % 60
        sec == (t.ms \div 1000) % 60
    IN  PadStart(IntToString(c.y), 4, "0") \o <<"-">> \o Pad2(c.m) \o <<"-">> \o Pad2(c.d)
            \o <<"T">> \o Pad2(h) \o <<":">> \o Pad2(mi) \o <<":">> \o Pad2(sec)
            \o <<".">> \o PadStart(IntToString(t.ms % 1000), 3, "0") \o <<"Z">>

toDateKey(date) ==
    LET y == getUTCFullYear(date)
        m == PadStart(IntToString(getUTCMonth(date) + 1), 2, "0")
        d == PadStart(IntToString(getUTCDate(date)), 2, "0")
    IN  IntToString(y) \o <<"-">> \o m \o <<"-">> \o d

\* typeof value === 'string' && /^\d{4}-\d{2}-\d{2}$/.test(value)
isValidDateKey(value) ==
    /\ value.t = "str"
    /\ Len(value.s) = 10
    /\ \A i \in 1..10 : IF i \in {5, 8} THEN value.s[i] = "-" ELSE IsDigit(value.s[i])

\* s.split(c)
RECURSIVE Split(_, _)
Split(s, c) ==
    IF \A i \in 1..Len(s) : s[i] # c THEN <<s>>
    ELSE LET k == CHOOSE i \in 1..Len(s) : s[i] = c /\ \A j \in 1..(i - 1) : s[j] # c
         IN  <<SubSeq(s, 1, k - 1)>> \o Split(SubSeq(s, k + 1, Len(s)), c)

\* dateKey.slice(0, 4)
Slice04(s) == SubSeq(s, 1, IF Len(s) < 4 THEN Len(s) ELSE 4)

parseDateFromKey(dateKey) ==
    LET parts == Split(dateKey, "-")
        n(i) == IF i <= Len(parts) THEN ToNumber(Str(parts[i])) ELSE NaN
    IN  IF n(1).t = "num" /\ n(2).t = "num" /\ n(3).t = "num"
        THEN DateUTC(IF n(1).n \in 0..99 THEN 1900 + n(1).n ELSE n(1).n, n(2).n - 1, n(3).n)
        ELSE InvalidDate

-----------------------------------------------------------------------------
(* Entry normalisation *)

\* a normalisation that keeps the severity of a record that is not sick
normalizedSeverityKept(raw) ==
    ToNumber(Or(Get(raw, "severity"), Num(1)))

\* severity: raw.isSick ? Number(raw.severity || 1) : null
normalizedSeverity(raw) ==
    IF Get(raw, "isSick").b THEN ToNumber(Or(Get(raw, "severity"), Num(1))) ELSE Null

\* a normalisation that takes raw.dateKey alone, never the day of raw.date
normalizedDateKeyOnly(raw) ==
    Get(raw, "dateKey")

\* the dateKey normalizeEntry settles on: raw.dateKey, or the UTC day of raw.date
\* when raw.dateKey is no date key and raw.date parses
normalizedDateKey(raw) ==
    LET dateKey == Get(raw, "dateKey")
    IN  IF ~isValidDateKey(dateKey) /\ Truthy(Get(raw, "date"))
        THEN LET parsed == NewDate(Get(raw, "date"))
             IN  IF parsed.t # "invalid" THEN Str(toDateKey(parsed)) ELSE dateKey
        ELSE dateKey

normalizeEntry(raw) ==
    IF ~Truthy(raw) \/ raw.t \notin {"obj", "arr"} THEN Null
    ELSE LET dateKey == normalizedDateKey(raw)
         IN  IF ~isValidDateKey(dateKey) \/ Get(raw, "isSick").t # "bool" THEN Null
             ELSE [t |-> "entry",
                   id |-> Or(Or(Get(raw, "id"), Get(raw, "_id")), Null),
                   date |-> Get(raw, "date"),
                   dateKey |-> dateKey.s,
                   isSick |-> Get(raw, "isSick").b,
                   severity |-> normalizedSeverity(raw)]

-----------------------------------------------------------------------------
(* Inputs of the stand-alone normalizeEntry calls: every combination of the   *)
(* field values below, and some values that are no objects.                   *)

Key20240305 == <<"2", "0", "2", "4", "-", "0", "3", "-", "0", "5">>
Key20241340 == <<"2", "0", "2", "4", "-", "1", "3", "-", "4", "0">>
KeyUnpadded == <<"2", "0", "2", "4", "-", "3", "-", "5">>
NotADate == <<"s", "o", "o", "n">>
\* 23:30 on 5 March at UTC-5, which is 04:30 UTC on 6 March
IsoWest == Key20240305 \o <<"T", "2", "3", ":", "3", "0", ":", "0", "0", ".", "0", "0", "0",
                            "-", "0", "5", ":", "0", "0">>
\* a year of three digits: String(999) has no leading zero
IsoYear999 == <<"0", "9", "9", "9", "-", "0", "1", "-", "0", "1">>

RawDateKeys == {Undef, Num(20240305), Str(Key20240305), Str(Key20241340), Str(KeyUnpadded)}
RawDates == {Undef, Null, Str(toISOString(DateParse(Key20240305))), Str(IsoWest),
             Str(NotADate), Str(IsoYear999), Str(Key20241340)}
RawIsSick == {Undef, Bool(TRUE), Bool(FALSE), Str(<<"y", "e", "s">>), Num(1)}
RawSeverities == {Undef, Null, Num(0), Num(3), Num(7), Str(<<"3">>), Str(<<"b", "a", "d">>),
                  Str(<<>>), EmptyArray}
RawIds == {Undef, Str(<<"a">>)}
RawMongoIds == {Undef, Str(<<"b">>)}

RawRecords ==
    {Undef, Null, Num(5), Str(Key20240305), Bool(TRUE), EmptyArray}
        \cup {Obj([id |-> i, _id |-> m, date |-> d, dateKey |-> k, isSick |-> sick, severity |-> sev]) :
                 i \in RawIds, m \in RawMongoIds, d \in RawDates, k \in RawDateKeys,
                 sick \in RawIsSick, sev \in RawSeverities}

Pending == [t |-> "pending"]

-----------------------------------------------------------------------------
(* Bounds and inputs of the HomePage model *)

\* the year of "today" (new Date().getFullYear())
nowYear == 2024

\* the years the user navigates to are nowYear - MaxYearDelta .. nowYear + MaxYearDelta
MaxYearDelta == 1
\* the most records in one fetchEntriesByYear response
MaxResp == 2
\* the most requests (fetchEntriesByYear, saveEntry) issued after the mount
MaxRequests == 2

YearRange == (nowYear - MaxYearDelta)..(nowYear + MaxYearDelta)

\* the calendar days the user picks or clicks, as UTC midnights
Day20231231 == DateUTC(2023, 11, 31)
Day20240101 == DateUTC(2024, 0, 1)
Day20240305 == DateUTC(2024, 2, 5)
Day20240601 == DateUTC(2024, 5, 1)
\* the days picked in the DatePicker, and the days clicked in the heatmap
PickDays == {Day20231231, Day20240601}
ClickDays == {Day20240101}

\* local offsets of the client: UTC-5 and UTC+5:30
TzPool == {-300, 330}

\* records the persistence service answers with
ServerEntry(day, hasKey, hasDate, sick, sev) ==
    Obj([id |-> Undef,
         _id |-> Str(<<"e">>),
         date |-> IF hasDate THEN Str(toISOString(day)) ELSE Undef,
         dateKey |-> IF hasKey THEN Str(toDateKey(day)) ELSE Undef,
         isSick |-> Bool(sick),
         severity |-> sev])

RecSick0601 == ServerEntry(Day20240601, TRUE, TRUE, TRUE, Num(7))
RecHealthy0601 == ServerEntry(Day20240601, FALSE, TRUE, FALSE, Num(4))
RecNoDate0305 == ServerEntry(Day20240305, TRUE, FALSE, TRUE, Undef)
RecMalformed ==
    Obj([id |-> Undef, _id |-> Undef, date |-> Str(toISOString(Day20240101)), dateKey |-> Undef,
         isSick |-> Str(<<"y", "e", "s">>), severity |-> Num(2)])

ServerPool == {RecSick0601, RecHealthy0601, RecNoDate0305, RecMalformed}

SeqsUpTo(S, n) == UNION {[1..k -> S] : k \in 0..n}

\* data.entries of a successful fetchEntriesByYear response: an array, or no array
EntriesResponses == {Arr(list) : list \in SeqsUpTo(ServerPool, MaxResp)} \cup {Undef}

\* data.years of a successful fetchYears response
YearsResponses == {Arr(<<nowYear - 1>>), Undef}

\* err.message of a rejected request: a failed fetch() (the browser's text, here
\* also an empty one), a non-success status, a body that is no object
FetchErrors == {"", "Failed to fetch entries"}
SaveErrors == {"", "Failed to save entry"}

Message(text, fallback) == IF text # "" THEN text ELSE fallback

-----------------------------------------------------------------------------
(* HomePage: derived values *)

Range(seq) == {seq[i] : i \in 1..Len(seq)}

\* Number(entry.dateKey.slice(0, 4)) !== selectedYear
InSelectedYear(entry, year) == ToNumber(Str(Slice04(entry.dateKey))) = Num(year)

\* a map of the entries by dateKey, whatever their year
entryMapAnyYear(list, year) ==
    LET kept == {i \in 1..Len(list) : isValidDateKey(Str(list[i].dateKey))}
        latest(k) == CHOOSE i \in kept : list[i].dateKey = k /\ \A j \in kept : list[j].dateKey = k => j <= i
    IN  [k \in {list[i].dateKey : i \in kept} |-> list[latest(k)]]

\* the useMemo map: the entries of the selected year by dateKey, a later entry
\* replacing an earlier one of the same key
entryMap(list, year) ==
    LET kept == {i \in 1..Len(list) :
                    isValidDateKey(Str(list[i].dateKey)) /\ InSelectedYear(list[i], year)}
        latest(k) == CHOOSE i \in kept : list[i].dateKey = k /\ \A j \in kept : list[j].dateKey = k => j <= i
    IN  [k \in {list[i].dateKey : i \in kept} |-> list[latest(k)]]

\* entryMap[key]
Lookup(map, key) == IF key \in DOMAIN map THEN map[key] ELSE Undef

-----------------------------------------------------------------------------
(* Array.prototype.sort with the comparator of commitSave *)

\* ta - tb for two new Date(x.date).getTime() values, as the sign sort acts on:
\* a NaN result counts as +0
compareTimes(ta, tb) ==
    LET v == TimeDiffSign(ta, tb)
    IN  IF v.t = "nan" THEN 0 ELSE v.n

\* (a, b) => new Date(a.date).getTime() - new Date(b.date).getTime()
compareByDate(a, b) == compareTimes(NewDate(a.date), NewDate(b.date))

\* the elements of list, each with the Date the comparator makes of it
RECURSIVE withTimes(_)
withTimes(list) ==
    IF Len(list) = 0 THEN <<>>
    ELSE <<[item |-> Head(list), time |-> NewDate(Head(list).date)]>> \o withTimes(Tail(list))

\* the comparator is a consistent comparator for the elements of keyed
ConsistentComparator(keyed) ==
    \A a, b, c \in {x.time : x \in Range(keyed)} :
        /\ compareTimes(a, a) = 0
        /\ (compareTimes(a, b) < 0) = (compareTimes(b, a) > 0)
        /\ (compareTimes(a, b) = 0 /\ compareTimes(b, c) = 0) => compareTimes(a, c) = 0
        /\ (compareTimes(a, b) < 0 /\ compareTimes(b, c) = 0) => compareTimes(a, c) < 0
        /\ (compareTimes(a, b) = 0 /\ compareTimes(b, c) < 0) => compareTimes(a, c) < 0
        /\ (compareTimes(a, b) < 0 /\ compareTimes(b, c) < 0) => compareTimes(a, c) < 0

Rearrangements(list) ==
    LET n == Len(list)
    IN  {[i \in 1..n |-> list[f[i]]] : f \in {g \in [1..n -> 1..n] : \A i, j \in 1..n : g[i] = g[j] => i = j}}

\* x put into the ascending list sorted, after the elements it does not precede
RECURSIVE InsertSorted(_, _)
InsertSorted(sorted, x) ==
    IF Len(sorted) = 0 THEN <<x>>
    ELSE IF compareTimes(x.time, sorted[Len(sorted)].time) >= 0 THEN Append(sorted, x)
    ELSE Append(InsertSorted(SubSeq(sorted, 1, Len(sorted) - 1), x), sorted[Len(sorted)])

\* the stable ascending order of keyed
RECURSIVE StableSort(_)
StableSort(keyed) ==
    IF Len(keyed) = 0 THEN <<>>
    ELSE InsertSorted(StableSort(SubSeq(keyed, 1, Len(keyed) - 1)), keyed[Len(keyed)])

\* what list.sort(compareByDate) may leave in the array: the stable ascending
\* order when the comparator is consistent, an implementation-defined order of
\* the same elements when it is not (ECMA-262, Array.prototype.sort)
SortOutcomes(list) ==
    LET keyed == withTimes(list)
        sorted == StableSort(keyed)
    IN  IF ConsistentComparator(keyed)
        THEN {[i \in 1..Len(list) |-> sorted[i].item]}
        ELSE Rearrangements(list)

\* prev.filter((item) => item.dateKey !== saved.dateKey), then push(saved)
mergeSaved(prev, saved) ==
    Append(SelectSeq(prev, LAMBDA item : item.dateKey # saved.dateKey), saved)

-----------------------------------------------------------------------------
(* HomePage: state after the first render and its mount effects *)

FetchRequest(year) == [kind |-> "fetch", year |-> year]

\* a saveEntry call of commitSave: the payload, the selectedYear its closure holds,
\* and (for reference) the collection and the known years when it was issued
SaveRequest(payload, year) ==
    [kind |-> "save", payload |-> payload, year |-> year,
     issuedEntries |-> entries, issuedYears |-> yearsFromApi]

NormIdle == normRaw = Undef /\ normOut = Pending

GridIdle == gridYear = nowYear /\ gridEntries = <<>> /\ grid = Pending

\* no session: nothing persisted, nobody logged in
NoAuth == [token |-> Null, user |-> Null]
AuthIdle ==
    /\ auth = NoAuth
    /\ localStore = NoAuth
    /\ cookieStore = NoAuth
    /\ getMeInflight = <<>>
    /\ logins = 0

Init ==
    /\ selectedYear = nowYear
    /\ yearsFromApi = <<>>
    /\ entries = <<>>
    /\ busy = TRUE
    /\ error = ""
    /\ formDate = Day20240601
    /\ isSick = FALSE
    /\ severity = Num(1)
    /\ existingEntryNotice = Null
    /\ updatePreview = Null
    /\ yearsPending = TRUE
    /\ inflight = <<FetchRequest(nowYear)>>
    /\ issued = 0
    /\ tz \in TzPool
    /\ NormIdle
    /\ GridIdle
    /\ AuthIdle

Remove(seq, i) == SubSeq(seq, 1, i - 1) \o SubSeq(seq, i + 1, Len(seq))

-----------------------------------------------------------------------------
(* HomePage: effects *)

\* fetchYears(token).then(...)
FetchYearsOk(years) ==
    /\ yearsPending
    /\ yearsPending' = FALSE
    /\ yearsFromApi' = IF IsArray(years) THEN years.items ELSE <<>>
    /\ UNCHANGED <<selectedYear, entries, busy, error, formDate, isSick, severity,
                   existingEntryNotice, updatePreview, inflight, tz, issued, normRaw, normOut, gridVars, authVars>>

\* fetchYears(token).catch(...)
FetchYearsFail ==
    /\ yearsPending
    /\ yearsPending' = FALSE
    /\ yearsFromApi' = <<>>
    /\ UNCHANGED <<selectedYear, entries, busy, error, formDate, isSick, severity,
                   existingEntryNotice, updatePreview, inflight, tz, issued, normRaw, normOut, gridVars, authVars>>

\* normalizeEntry of the records of ServerPool, computed once
NormalizedPool == [raw \in ServerPool |-> normalizeEntry(raw)]

\* normalizeEntry(raw), looked up in NormalizedPool for the records it holds
normalizeEntryOf(raw) ==
    IF raw \in ServerPool THEN NormalizedPool[raw] ELSE normalizeEntry(raw)

\* data.entries.map(normalizeEntry).filter(Boolean)
normalizeAll(list) ==
    SelectSeq([i \in 1..Len(list) |-> normalizeEntryOf(list[i])], LAMBDA e : Truthy(e))

\* the effect on [selectedYear, token], run for a change of the year to y
setSelectedYear(y) ==
    /\ y \in YearRange
    /\ y # selectedYear
    /\ issued < MaxRequests
    /\ selectedYear' = y
    /\ busy' = TRUE
    /\ error' = ""
    /\ entries' = <<>>
    /\ inflight' = Append(inflight, FetchRequest(y))
    /\ issued' = issued + 1
    /\ UNCHANGED <<yearsFromApi, formDate, isSick, severity, existingEntryNotice,
                   updatePreview, yearsPending, tz, normRaw, normOut, gridVars, authVars>>

\* the year-nav buttons and the year select
PrevYear == setSelectedYear(selectedYear - 1)
NextYear == setSelectedYear(selectedYear + 1)
SelectYearOption == \E y \in YearRange : setSelectedYear(y)

\* a .then that drops the response of a year that is no longer the selected one
FetchOkOfSelectedYear(i, resp) ==
    /\ i \in 1..Len(inflight)
    /\ inflight[i].kind = "fetch"
    /\ entries' = IF inflight[i].year # selectedYear THEN entries
                  ELSE IF IsArray(resp) THEN normalizeAll(resp.items) ELSE <<>>
    /\ busy' = FALSE
    /\ inflight' = Remove(inflight, i)
    /\ UNCHANGED <<selectedYear, yearsFromApi, error, formDate, isSick, severity,
                   existingEntryNotice, updatePreview, yearsPending, tz, issued, normRaw, normOut, gridVars, authVars>>

\* .then of fetchEntriesByYear, then .finally
FetchOk(i, resp) ==
    /\ i \in 1..Len(inflight)
    /\ inflight[i].kind = "fetch"
    /\ entries' = IF IsArray(resp) THEN normalizeAll(resp.items) ELSE <<>>
    /\ busy' = FALSE
    /\ inflight' = Remove(inflight, i)
    /\ UNCHANGED <<selectedYear, yearsFromApi, error, formDate, isSick, severity,
                   existingEntryNotice, updatePreview, yearsPending, tz, issued, normRaw, normOut, gridVars, authVars>>

\* a .catch that reports the error and leaves the entries as they are
FetchFailKeeps(i, text) ==
    /\ i \in 1..Len(inflight)
    /\ inflight[i].kind = "fetch"
    /\ error' = Message(text, "Failed to load entries")
    /\ busy' = FALSE
    /\ inflight' = Remove(inflight, i)
    /\ UNCHANGED <<selectedYear, yearsFromApi, entries, formDate, isSick, severity,
                   existingEntryNotice, updatePreview, yearsPending, tz, issued, normRaw, normOut, gridVars, authVars>>

\* .catch of fetchEntriesByYear, then .finally
FetchFail(i, text) ==
    /\ i \in 1..Len(inflight)
    /\ inflight[i].kind = "fetch"
    /\ entries' = <<>>
    /\ error' = Message(text, "Failed to load entries")
    /\ busy' = FALSE
    /\ inflight' = Remove(inflight, i)
    /\ UNCHANGED <<selectedYear, yearsFromApi, formDate, isSick, severity,
                   existingEntryNotice, updatePreview, yearsPending, tz, issued, normRaw, normOut, gridVars, authVars>>

-----------------------------------------------------------------------------
(* HomePage: handlers *)

\* onSelectDate(date) for a Date object
onSelectDate(date) ==
    LET normalized == DateUTC(getFullYear(date, tz), getMonth(date, tz), getDate(date, tz))
        key == toDateKey(normalized)
        existing == Lookup(entryMap(entries, selectedYear), key)
    IN  /\ formDate' = normalized
        /\ IF getUTCFullYear(normalized) # selectedYear
           THEN /\ existingEntryNotice' = Null
                /\ UNCHANGED <<isSick, severity>>
           ELSE IF Truthy(existing)
           THEN /\ existingEntryNotice' = existing
                /\ isSick' = existing.isSick
                /\ severity' = Or(existing.severity, Num(1))
           ELSE /\ existingEntryNotice' = Null
                /\ UNCHANGED <<isSick, severity>>
        /\ UNCHANGED <<selectedYear, yearsFromApi, entries, busy, error, updatePreview,
                       yearsPending, inflight, tz, issued, normRaw, normOut, gridVars, authVars>>

\* the DatePicker hands onChange a Date whose local calendar fields are the picked day
PickDate(day) ==
    /\ onSelectDate(LocalShift(day, -tz))

\* the DatePicker hands onChange null: if (!date) return
PickNothing ==
    /\ UNCHANGED <<selectedYear, yearsFromApi, entries, busy, error, formDate, isSick,
                   severity, existingEntryNotice, updatePreview, yearsPending, inflight, tz,
                   issued, normRaw, normOut, gridVars, authVars>>

\* the keys of the heatmap's cells: one per day of the year, of which the model
\* clicks those of ClickDays
heatmapKeys(year) == {toDateKey(d) : d \in {x \in ClickDays : getUTCFullYear(x) = year}}

\* click on a heatmap cell (drawn only while not busy):
\* onDayClick(new Date(`${key}T00:00:00.000Z`))
HeatmapDayClick(key) ==
    /\ ~busy
    /\ key \in heatmapKeys(selectedYear)
    /\ onSelectDate(DateParse(key \o <<"T", "0", "0", ":", "0", "0", ":", "0", "0", ".", "0", "0", "0", "Z">>))

\* the chips of the severity field, and the ones the model's user clicks
SeverityChips == {1, 2, 3, 4, 5}
ClickedChips == {c \in SeverityChips : c \in {1, 3}}

SetIsSick(b) ==
    /\ isSick # b
    /\ isSick' = b
    /\ UNCHANGED <<selectedYear, yearsFromApi, entries, busy, error, formDate, severity,
                   existingEntryNotice, updatePreview, yearsPending, inflight, tz, issued, normRaw, normOut, gridVars, authVars>>

SetSeverity(value) ==
    /\ severity # Num(value)
    /\ severity' = Num(value)
    /\ UNCHANGED <<selectedYear, yearsFromApi, entries, busy, error, formDate, isSick,
                   existingEntryNotice, updatePreview, yearsPending, inflight, tz, issued, normRaw, normOut, gridVars, authVars>>

\* the payload onSubmit builds from the form
formPayload ==
    [date |-> Str(toISOString(parseDateFromKey(toDateKey(formDate)))),
     isSick |-> isSick,
     severity |-> IF isSick THEN ToNumber(severity) ELSE Null]

\* commitSave(payload) up to its await; the info banner ("Entry saved.") it
\* clears and sets is shown and read by nothing else, and is left out
commitSaveStart(payload) ==
    /\ issued < MaxRequests
    /\ busy' = TRUE
    /\ error' = ""
    /\ inflight' = Append(inflight, SaveRequest(payload, selectedYear))
    /\ issued' = issued + 1

\* a submit that saves at once, whatever the collection holds
onSubmitNoConfirm ==
    /\ ~busy
    /\ commitSaveStart(formPayload)
    /\ UNCHANGED <<selectedYear, yearsFromApi, entries, formDate, isSick, severity,
                   existingEntryNotice, updatePreview, yearsPending, tz, normRaw, normOut, gridVars, authVars>>

\* submit of the entry form (the submit button is disabled while busy)
onSubmit ==
    LET dateKey == toDateKey(formDate)
        existing == Lookup(entryMap(entries, selectedYear), dateKey)
    IN  /\ ~busy
        /\ IF Truthy(existing)
           THEN /\ updatePreview' = [existing |-> existing, next |-> formPayload, dateKey |-> dateKey]
                /\ UNCHANGED <<busy, error, inflight, issued>>
           ELSE /\ commitSaveStart(formPayload)
                /\ UNCHANGED updatePreview
        /\ UNCHANGED <<selectedYear, yearsFromApi, entries, formDate, isSick, severity,
                       existingEntryNotice, yearsPending, tz, normRaw, normOut, gridVars, authVars>>

\* an "Update Entry" that saves what the form holds now instead of the candidate
\* the dialog shows
ConfirmUpdateSendsForm ==
    /\ updatePreview # Null
    /\ commitSaveStart(formPayload)
    /\ UNCHANGED <<selectedYear, yearsFromApi, entries, formDate, isSick, severity,
                   existingEntryNotice, updatePreview, yearsPending, tz, normRaw, normOut, gridVars, authVars>>

\* "Update Entry" of the update dialog: commitSave(updatePreview.next)
ConfirmUpdate ==
    /\ updatePreview # Null
    /\ commitSaveStart(updatePreview.next)
    /\ UNCHANGED <<selectedYear, yearsFromApi, entries, formDate, isSick, severity,
                   existingEntryNotice, updatePreview, yearsPending, tz, normRaw, normOut, gridVars, authVars>>

\* a "Cancel" that also puts the form's isSick and severity back to their defaults
CancelUpdateResetsForm ==
    /\ updatePreview # Null
    /\ updatePreview' = Null
    /\ isSick' = FALSE
    /\ severity' = Num(1)
    /\ UNCHANGED <<selectedYear, yearsFromApi, entries, busy, error, formDate,
                   existingEntryNotice, yearsPending, inflight, tz, issued, normRaw, normOut, gridVars, authVars>>

\* "Cancel" of the update dialog, or a click on its backdrop
CancelUpdate ==
    /\ updatePreview # Null
    /\ updatePreview' = Null
    /\ UNCHANGED <<selectedYear, yearsFromApi, entries, busy, error, formDate, isSick,
                   severity, existingEntryNotice, yearsPending, inflight, tz, issued, normRaw, normOut, gridVars, authVars>>

\* "Continue editing" of the existing-entry notice
DismissNotice ==
    /\ existingEntryNotice # Null
    /\ existingEntryNotice' = Null
    /\ UNCHANGED <<selectedYear, yearsFromApi, entries, busy, error, formDate, isSick,
                   severity, updatePreview, yearsPending, inflight, tz, issued, normRaw, normOut, gridVars, authVars>>

\* the entry a well-behaved service stores for a payload and returns
storedEntry(payload) ==
    Obj([id |-> Undef, _id |-> Str(<<"s">>), date |-> payload.date,
         dateKey |-> Str(toDateKey(NewDate(payload.date))),
         isSick |-> Bool(payload.isSick), severity |-> payload.severity])

\* response.entry of a successful saveEntry: the stored entry, a record that
\* does not normalise, or no entry at all
SaveResponses(payload) == {storedEntry(payload), RecMalformed, Undef}

\* commitSave after the await, saveEntry having resolved with {entry}
SaveOk(i, entry) ==
    /\ i \in 1..Len(inflight)
    /\ inflight[i].kind = "save"
    /\ LET saved == normalizeEntry(entry)
       IN  IF ~Truthy(saved)
           THEN /\ error' = "Invalid entry returned by server."
                /\ UNCHANGED <<entries, yearsFromApi, updatePreview>>
           ELSE /\ entries' \in SortOutcomes(mergeSaved(entries, saved))
                /\ yearsFromApi' = IF inflight[i].year \in Range(yearsFromApi) THEN yearsFromApi
                                   ELSE Append(yearsFromApi, inflight[i].year)
                /\ updatePreview' = Null
                /\ UNCHANGED error
    /\ busy' = FALSE
    /\ inflight' = Remove(inflight, i)
    /\ UNCHANGED <<selectedYear, formDate, isSick, severity, existingEntryNotice, yearsPending,
                   tz, issued, normRaw, normOut, gridVars, authVars>>

SaveResolves(i) ==
    /\ inflight[i].kind = "save"
    /\ \E entry \in SaveResponses(inflight[i].payload) : SaveOk(i, entry)

\* a catch that also empties the collection, as the catch of the fetch does
SaveFailClears(i, text) ==
    /\ i \in 1..Len(inflight)
    /\ inflight[i].kind = "save"
    /\ entries' = <<>>
    /\ error' = Message(text, "Failed to save entry")
    /\ busy' = FALSE
    /\ inflight' = Remove(inflight, i)
    /\ UNCHANGED <<selectedYear, yearsFromApi, formDate, isSick, severity,
                   existingEntryNotice, updatePreview, yearsPending, tz, issued, normRaw, normOut, gridVars, authVars>>

\* a commitSave without its finally: a failed save leaves busy as it is
SaveFailStaysBusy(i, text) ==
    /\ i \in 1..Len(inflight)
    /\ inflight[i].kind = "save"
    /\ error' = Message(text, "Failed to save entry")
    /\ inflight' = Remove(inflight, i)
    /\ UNCHANGED <<selectedYear, yearsFromApi, entries, busy, formDate, isSick, severity,
                   existingEntryNotice, updatePreview, yearsPending, tz, issued, normRaw, normOut, gridVars, authVars>>

\* commitSave after the await, saveEntry having thrown
SaveFail(i, text) ==
    /\ i \in 1..Len(inflight)
    /\ inflight[i].kind = "save"
    /\ error' = Message(text, "Failed to save entry")
    /\ busy' = FALSE
    /\ inflight' = Remove(inflight, i)
    /\ UNCHANGED <<selectedYear, yearsFromApi, entries, formDate, isSick, severity,
                   existingEntryNotice, updatePreview, yearsPending, tz, issued, normRaw, normOut, gridVars, authVars>>

Next ==
    \/ \E years \in YearsResponses : FetchYearsOk(years)
    \/ FetchYearsFail
    \/ PrevYear
    \/ NextYear
    \/ SelectYearOption
    \/ \E i \in 1..Len(inflight), resp \in EntriesResponses : FetchOk(i, resp)
    \/ \E i \in 1..Len(inflight), text \in FetchErrors : FetchFail(i, text)
    \/ \E day \in PickDays : PickDate(day)
    \/ PickNothing
    \/ \E key \in heatmapKeys(selectedYear) : HeatmapDayClick(key)
    \/ \E b \in BOOLEAN : SetIsSick(b)
    \/ \E value \in ClickedChips : SetSeverity(value)
    \/ onSubmit
    \/ ConfirmUpdate
    \/ CancelUpdate
    \/ DismissNotice
    \/ \E i \in 1..Len(inflight) : SaveResolves(i)
    \/ \E i \in 1..Len(inflight), text \in SaveErrors : SaveFail(i, text)

Spec == Init /\ [][Next]_vars

-----------------------------------------------------------------------------
(* Loading: the two mount effects and the changes of the year, with every     *)
(* response of EntriesResponses                                               *)

NextFetch ==
    \/ \E years \in YearsResponses : FetchYearsOk(years)
    \/ FetchYearsFail
    \/ PrevYear
    \/ NextYear
    \/ SelectYearOption
    \/ \E i \in 1..Len(inflight), resp \in EntriesResponses : FetchOk(i, resp)
    \/ \E i \in 1..Len(inflight), text \in FetchErrors : FetchFail(i, text)

SpecFetch == Init /\ [][NextFetch]_vars

-----------------------------------------------------------------------------
(* Editing: the date of the entry form, the dialogs and the saves, over a     *)
(* year that the service answers with the responses of EditResponses; isSick  *)
(* and severity of the form are the defaults or those of a selected entry     *)

EditResponses == {Arr(<<RecSick0601, RecNoDate0305>>), Arr(<<>>)}

NextEdit ==
    \/ \E i \in 1..Len(inflight), resp \in EditResponses : FetchOk(i, resp)
    \/ \E i \in 1..Len(inflight), text \in FetchErrors : FetchFail(i, text)
    \/ PrevYear
    \/ NextYear
    \/ \E day \in PickDays : PickDate(day)
    \/ \E key \in heatmapKeys(selectedYear) : HeatmapDayClick(key)
    \/ onSubmit
    \/ ConfirmUpdate
    \/ CancelUpdate
    \/ DismissNotice
    \/ \E i \in 1..Len(inflight) : SaveResolves(i)
    \/ \E i \in 1..Len(inflight), text \in SaveErrors : SaveFail(i, text)

SpecEdit == Init /\ [][NextEdit]_vars

\* a request that gets no response does not stay in flight for ever: the
\* browser gives it up and its promise rejects
RequestGivenUp ==
    \/ \E i \in 1..Len(inflight), text \in FetchErrors : FetchFail(i, text)
    \/ \E i \in 1..Len(inflight), text \in SaveErrors : SaveFail(i, text)

\* SpecEdit with every request completing, with a response or with a failure:
\* RequestGivenUp is enabled exactly while a request is in flight and a response
\* (FetchOk, SaveResolves) takes the request out of flight as well, so the fair
\* behaviours are those in which no request stays in flight for ever
SpecEditFair == SpecEdit /\ WF_vars(RequestGivenUp)

-----------------------------------------------------------------------------
(* Changes of the year over a service that holds different entries for each   *)
(* year and answers every fetch with the entries of the year asked for        *)

Rec20231231 == ServerEntry(Day20231231, TRUE, TRUE, FALSE, Null)

\* data.entries the service answers a fetch of the year with
StoredOfYear(year) ==
    IF year = nowYear THEN Arr(<<RecSick0601, RecNoDate0305>>)
    ELSE IF year = nowYear - 1 THEN Arr(<<Rec20231231>>)
    ELSE Arr(<<>>)

NextRace ==
    \/ \E i \in 1..Len(inflight) :
          inflight[i].kind = "fetch" /\ FetchOk(i, StoredOfYear(inflight[i].year))
    \/ \E i \in 1..Len(inflight), text \in FetchErrors : FetchFail(i, text)
    \/ PrevYear
    \/ NextYear
    \/ \E day \in PickDays : PickDate(day)
    \/ \E key \in heatmapKeys(selectedYear) : HeatmapDayClick(key)
    \/ DismissNotice

SpecRace == Init /\ [][NextRace]_vars

-----------------------------------------------------------------------------
(* Stand-alone calls of normalizeEntry on every record of RawRecords *)

InitNorm ==
    /\ selectedYear = nowYear
    /\ yearsFromApi = <<>>
    /\ entries = <<>>
    /\ busy = TRUE
    /\ error = ""
    /\ formDate = Day20240601
    /\ isSick = FALSE
    /\ severity = Num(1)
    /\ existingEntryNotice = Null
    /\ updatePreview = Null
    /\ yearsPending = TRUE
    /\ inflight = <<FetchRequest(nowYear)>>
    /\ issued = 0
    /\ tz = 0
    /\ normRaw \in RawRecords
    /\ normOut = Pending
    /\ GridIdle
    /\ AuthIdle

NormalizeCall ==
    /\ normOut = Pending
    /\ normOut' = normalizeEntry(normRaw)
    /\ UNCHANGED <<normRaw, homeVars, gridVars, authVars>>

NextNorm == NormalizeCall

SpecNorm == InitNorm /\ [][NextNorm]_vars

-----------------------------------------------------------------------------
(* YearHeatmap: the grid of week columns and the month layout, and the data   *)
(* points of the calendar chart                                               *)

\* a day of the week that counts from Monday
getUTCDayMondayFirst(t) == (t.day + 3) % 7

\* date.getUTCDay(): 0 is Sunday; 1 January 1970 was a Thursday
getUTCDay(t) == (t.day + 4) % 7

startOfYearUtc(year) == DateUTC(year, 0, 1)

startOfNextYearUtc(year) == DateUTC(year + 1, 0, 1)

\* Math.floor((b.getTime() - a.getTime()) / 86400000)
dayDiffUtc(a, b) == (b.day - a.day) + ((b.ms - a.ms) \div MsPerDay)

\* Math.ceil(a / b) for b > 0
CeilDiv(a, b) == -((-a) \div b)

Max(a, b) == IF a >= b THEN a ELSE b

Min(a, b) == IF a <= b THEN a ELSE b

MonthNames == <<"Jan", "Feb", "Mar", "Apr", "May", "Jun",
                "Jul", "Aug", "Sep", "Oct", "Nov", "Dec">>

\* new Date(Date.UTC(2020, month, 1)).toLocaleString('en-US', { month: 'short' })
monthName(month) == MonthNames[getUTCMonth(DateUTC(2020, month, 1)) + 1]

\* the entries by dateKey, a later entry replacing an earlier one of the same key
entriesByKey(list) ==
    LET latest(k) == CHOOSE i \in 1..Len(list) :
                        list[i].dateKey = k /\ \A j \in 1..Len(list) : list[j].dateKey = k => j <= i
    IN  [k \in {list[i].dateKey : i \in 1..Len(list)} |-> list[latest(k)]]

\* the month of the layout: its label, first week column and number of columns
monthLayoutEntry(year, m) ==
    LET jan1 == startOfYearUtc(year)
        nextJan1 == startOfNextYearUtc(year)
        offset == getUTCDay(jan1)
        monthStart == DateUTC(year, m, 1)
        monthEnd == IF m = 11 THEN nextJan1 ELSE DateUTC(year, m + 1, 1)
        startFlat == offset + dayDiffUtc(jan1, monthStart)
        endFlatExclusive == offset + dayDiffUtc(jan1, monthEnd)
        startWeek == startFlat \div 7
        endWeek == CeilDiv(endFlatExclusive, 7)
    IN  [label |-> monthName(m), startWeek |-> startWeek, spanWeeks |-> Max(1, endWeek - startWeek)]

\* slots for a year of 365 days, whatever the year
daySlotOfCommonYear(year, byKey, w, d) ==
    LET offset == getUTCDay(startOfYearUtc(year))
        dayIndex == w * 7 + d - offset
    IN  IF dayIndex < 0 \/ dayIndex >= 365 THEN Null
        ELSE LET date == DateUTC(year, 0, 1 + dayIndex)
                 dateKey == toDateKey(date)
             IN  [date |-> date, dateKey |-> dateKey, entry |-> Or(Lookup(byKey, dateKey), Null)]

\* slots that look their entry up under the key of the day after
daySlotShifted(year, byKey, w, d) ==
    LET jan1 == startOfYearUtc(year)
        totalDays == dayDiffUtc(jan1, startOfNextYearUtc(year))
        dayIndex == w * 7 + d - getUTCDay(jan1)
    IN  IF dayIndex < 0 \/ dayIndex >= totalDays THEN Null
        ELSE LET date == DateUTC(year, 0, 1 + dayIndex)
             IN  [date |-> date, dateKey |-> toDateKey(date),
                  entry |-> Or(Lookup(byKey, toDateKey(DateUTC(year, 0, 2 + dayIndex))), Null)]

\* the slot of row d in week column w: null outside the year, else the day
daySlot(year, byKey, w, d) ==
    LET jan1 == startOfYearUtc(year)
        totalDays == dayDiffUtc(jan1, startOfNextYearUtc(year))
        offset == getUTCDay(jan1)
        flatIndex == w * 7 + d
        dayIndex == flatIndex - offset
    IN  IF dayIndex < 0 \/ dayIndex >= totalDays THEN Null
        ELSE LET date == DateUTC(year, 0, 1 + dayIndex)
                 dateKey == toDateKey(date)
             IN  [date |-> date, dateKey |-> dateKey, entry |-> Or(Lookup(byKey, dateKey), Null)]

\* the weeks / monthLayout memo; arrays are functions on 0..length-1
buildYearGrid(year, list) ==
    LET jan1 == startOfYearUtc(year)
        totalDays == dayDiffUtc(jan1, startOfNextYearUtc(year))
        offset == getUTCDay(jan1)
        totalCells == offset + totalDays
        weekCount == CeilDiv(totalCells, 7)
        monthLayoutData == [m \in 0..11 |-> monthLayoutEntry(year, m)]
        monthStarts == {monthLayoutData[m].startWeek : m \in 0..11} \ {0}
        byKey == entriesByKey(list)
    IN  [weeks |-> [w \in 0..(weekCount - 1) |->
                      [index |-> w,
                       days |-> [d \in 0..6 |-> daySlot(year, byKey, w, d)],
                       monthBreakBefore |-> w \in monthStarts]],
         monthLayout |-> monthLayoutData]

entryToScale(entry) ==
    IF ~Truthy(entry) THEN Num(0)
    ELSE IF ~entry.isSick THEN Num(1)
    ELSE LET sev == Or(entry.severity, Num(1))
         IN  IF sev.t = "num" THEN Num(Min(6, Max(2, sev.n + 1))) ELSE NaN

\* the dataPoints memo of the calendar chart: [key, scale, dayCounter] for each
\* date from 1 January up to, not including, 1 January of the next year
dataPoints(year, list) ==
    LET map == entriesByKey(list)
        yearStart == DateUTC(year, 0, 1)
        nextYearStart == DateUTC(year + 1, 0, 1)
    IN  [dayCounter \in 1..(nextYearStart.day - yearStart.day) |->
            LET key == toDateKey(Time(yearStart.day + dayCounter - 1, 0))
            IN  <<key, entryToScale(Or(Lookup(map, key), Null)), dayCounter>>]

-----------------------------------------------------------------------------
(* Stand-alone YearHeatmap renders: the years of the year select             *)
(* (nowYear - 20 .. nowYear + 10) and three century years, with no entry or  *)
(* one entry                                                                  *)

YearOptionsBack == 20
YearOptionsAhead == 10

GridYears == (nowYear - YearOptionsBack)..(nowYear + YearOptionsAhead) \cup {1900, 2000, 2100}

\* the normalised entry of a day, as the collection holds it
GridEntry(day) == normalizeEntry(ServerEntry(day, TRUE, TRUE, TRUE, Num(3)))

\* the days an entry is put on: the first and the last day of the year, the
\* days around the end of February, and the last day of the year before
GridEntryDays(year) ==
    {DateUTC(year, 0, 1), DateUTC(year, 1, 28), DateUTC(year, 1, 29), DateUTC(year, 2, 1),
     DateUTC(year, 11, 31), DateUTC(year, 0, 0)}

InitGrid ==
    /\ selectedYear = nowYear
    /\ yearsFromApi = <<>>
    /\ entries = <<>>
    /\ busy = TRUE
    /\ error = ""
    /\ formDate = Day20240601
    /\ isSick = FALSE
    /\ severity = Num(1)
    /\ existingEntryNotice = Null
    /\ updatePreview = Null
    /\ yearsPending = TRUE
    /\ inflight = <<FetchRequest(nowYear)>>
    /\ issued = 0
    /\ tz = 0
    /\ NormIdle
    /\ gridYear \in GridYears
    /\ gridEntries \in {<<>>} \cup {<<GridEntry(day)>> : day \in GridEntryDays(gridYear)}
    /\ grid = Pending
    /\ AuthIdle

\* the memos of a render
RenderGrid ==
    /\ grid = Pending
    /\ grid' = [weeks |-> buildYearGrid(gridYear, gridEntries).weeks,
                monthLayout |-> buildYearGrid(gridYear, gridEntries).monthLayout,
                dataPoints |-> dataPoints(gridYear, gridEntries)]
    /\ UNCHANGED <<gridYear, gridEntries, normRaw, normOut, homeVars, authVars>>

NextGrid == RenderGrid

SpecGrid == InitGrid /\ [][NextGrid]_vars

-----------------------------------------------------------------------------
(* App: the session (auth state, localStorage, cookie) and the getMe effect   *)

\* how many logins or signups the model follows
MaxLogins == 2

\* tokens and user records the authentication service hands out
TokenA == Str(<<"a">>)
TokenB == Str(<<"b">>)
UserAnn == Obj([name |-> Str(<<"A", "n", "n">>)])
UserBob == Obj([name |-> Str(<<"B", "o", "b">>)])

\* response of login or signup: {token, user}
LoginResponses == {[token |-> TokenA, user |-> UserAnn], [token |-> TokenB, user |-> UserBob]}

\* data.user of a getMe response: a user record, or none
GetMeUsers == {UserAnn, UserBob, Undef}

\* JSON.stringify(user) and JSON.parse(text) of such a text
JSONstringify(user) == [t |-> "json", of |-> user]
JSONparse(text) == text.of

\* encodeURIComponent(value) and decodeURIComponent of such a value
encodeURIComponent(value) == [t |-> "uri", of |-> value]
decodeURIComponent(value) == value.of

\* cookieGet(name), of the cookie pairs given: the decoded value, or null
cookieGet(ck, name) == IF ck[name] = Null THEN Null ELSE decodeURIComponent(ck[name])

\* readPersistedAuth(), of the two stores given
readPersistedAuth(ls, ck) ==
    LET token == IF ls.token # Null THEN ls.token ELSE cookieGet(ck, "token")
        userRaw == IF ls.user # Null THEN ls.user ELSE cookieGet(ck, "user")
    IN  [token |-> token, user |-> IF userRaw # Null THEN JSONparse(userRaw) ELSE Null]

\* the two stores after persistAuth(token, user)
persistedLocal(token, user) == [token |-> token, user |-> JSONstringify(user)]
persistedCookie(token, user) ==
    [token |-> encodeURIComponent(token), user |-> encodeURIComponent(JSONstringify(user))]

\* what the stores hold when the App is loaded: nothing, a session in both, or
\* a session in the cookie only
PersistedAtLoad ==
    {[ls |-> NoAuth, ck |-> NoAuth],
     [ls |-> persistedLocal(TokenA, UserAnn), ck |-> persistedCookie(TokenA, UserAnn)],
     [ls |-> NoAuth, ck |-> persistedCookie(TokenA, UserAnn)]}

\* first render of the App and its getMe effect
InitAuth ==
    /\ selectedYear = nowYear
    /\ yearsFromApi = <<>>
    /\ entries = <<>>
    /\ busy = TRUE
    /\ error = ""
    /\ formDate = Day20240601
    /\ isSick = FALSE
    /\ severity = Num(1)
    /\ existingEntryNotice = Null
    /\ updatePreview = Null
    /\ yearsPending = TRUE
    /\ inflight = <<FetchRequest(nowYear)>>
    /\ issued = 0
    /\ tz = 0
    /\ NormIdle
    /\ GridIdle
    /\ \E p \in PersistedAtLoad :
          /\ localStore = p.ls
          /\ cookieStore = p.ck
          /\ auth = readPersistedAuth(p.ls, p.ck)
          /\ getMeInflight = IF readPersistedAuth(p.ls, p.ck).token # Null
                             THEN <<readPersistedAuth(p.ls, p.ck).token>> ELSE <<>>
    /\ logins = 0

\* onAuthSuccess(token, user), called by the AuthPage, which is shown while
\* there is no token; the effect on [auth.token] then calls getMe(token)
onAuthSuccess(token, user) ==
    /\ auth.token = Null
    /\ logins < MaxLogins
    /\ localStore' = persistedLocal(token, user)
    /\ cookieStore' = persistedCookie(token, user)
    /\ auth' = [token |-> token, user |-> user]
    /\ getMeInflight' = Append(getMeInflight, token)
    /\ logins' = logins + 1
    /\ UNCHANGED <<homeVars, normRaw, normOut, gridVars>>

\* onLogout(), called by the HomePage, which is shown while there is a token
onLogout ==
    /\ auth.token # Null
    /\ localStore' = NoAuth
    /\ cookieStore' = NoAuth
    /\ auth' = NoAuth
    /\ UNCHANGED <<getMeInflight, logins, homeVars, normRaw, normOut, gridVars>>

\* .then of getMe(auth.token), auth.token being the token the effect ran with
GetMeOk(i, user) ==
    /\ i \in 1..Len(getMeInflight)
    /\ IF user # Undef
       THEN /\ localStore' = persistedLocal(getMeInflight[i], user)
            /\ cookieStore' = persistedCookie(getMeInflight[i], user)
            /\ auth' = [auth EXCEPT !.user = user]
       ELSE UNCHANGED <<localStore, cookieStore, auth>>
    /\ getMeInflight' = Remove(getMeInflight, i)
    /\ UNCHANGED <<logins, homeVars, normRaw, normOut, gridVars>>

\* .catch of getMe(auth.token)
GetMeFail(i) ==
    /\ i \in 1..Len(getMeInflight)
    /\ localStore' = NoAuth
    /\ cookieStore' = NoAuth
    /\ auth' = NoAuth
    /\ getMeInflight' = Remove(getMeInflight, i)
    /\ UNCHANGED <<logins, homeVars, normRaw, normOut, gridVars>>

NextAuth ==
    \/ \E r \in LoginResponses : onAuthSuccess(r.token, r.user)
    \/ onLogout
    \/ \E i \in 1..Len(getMeInflight), user \in GetMeUsers : GetMeOk(i, user)
    \/ \E i \in 1..Len(getMeInflight) : GetMeFail(i)

SpecAuth == InitAuth /\ [][NextAuth]_vars

-----------------------------------------------------------------------------
(* Properties of normalizeEntry (SpecNorm) *)

\* C9: normalizeEntry returns null for every record whose dateKey is not a
\* valid calendar day (a string YYYY-MM-DD with a month 1..12 and a day of that
\* month) and whose date parses to no date, whatever its other fields are.
NullForInvalidCalendarDay ==
    LET dateKey == Get(normRaw, "dateKey")
        month == DecimalValue(SubSeq(dateKey.s, 6, 7))
        day == DecimalValue(SubSeq(dateKey.s, 9, 10))
        year == DecimalValue(SubSeq(dateKey.s, 1, 4))
        validDay == /\ isValidDateKey(dateKey)
                    /\ month \in 1..12
                    /\ day \in 1..DaysInMonth(year, month)
        fallback == Truthy(Get(normRaw, "date")) /\ NewDate(Get(normRaw, "date")).t # "invalid"
    IN  (normOut # Pending /\ normRaw.t = "obj" /\ ~validDay /\ ~fallback) => normOut = Null

\* C10: for a record with a boolean isSick and a dateKey of the form YYYY-MM-DD,
\* the output's severity is null when isSick is false, and when isSick is true
\* it is Number(raw.severity), with 1 for an absent or falsy severity; dateKey
\* and isSick of the output are those of the record.
SeverityFollowsIsSick ==
    LET sick == Get(normRaw, "isSick")
        sev == Get(normRaw, "severity")
    IN  (normOut # Pending /\ normRaw.t = "obj" /\ sick.t = "bool"
            /\ isValidDateKey(Get(normRaw, "dateKey")))
        => /\ normOut.t = "entry"
           /\ normOut.dateKey = Get(normRaw, "dateKey").s
           /\ normOut.isSick = sick.b
           /\ ~sick.b => normOut.severity = Null
           /\ sick.b => normOut.severity = IF Truthy(sev) THEN ToNumber(sev) ELSE Num(1)

\* a record that is not sick came with severity 3 and left with none
SeverityDiscarded ==
    /\ normOut # Pending
    /\ normOut # Null
    /\ ~normOut.isSick
    /\ Get(normRaw, "severity") = Num(3)
    /\ normOut.severity = Null

-----------------------------------------------------------------------------
(* Properties of loading (SpecFetch) *)

\* C3: in every reachable state the Year Collection holds at most one entry
\* per dateKey, also after a fetch response with two records of one dateKey.
OneEntryPerDateKey ==
    \A p, q \in 1..Len(entries) : entries[p].dateKey = entries[q].dateKey => p = q

\* C7: when a fetchEntriesByYear request fails, the Year Collection is empty and
\* the error message is not empty right after the failure is handled.
FetchFailureClears ==
    [][\A i \in 1..Len(inflight), text \in FetchErrors :
          FetchFail(i, text) => entries' = <<>> /\ error' # ""]_vars

\* a fetch has failed: its message is shown over an empty collection
FetchFailureShown ==
    /\ error \in {Message(text, "Failed to load entries") : text \in FetchErrors}
    /\ entries = <<>>
    /\ ~busy
    /\ \A i \in 1..Len(inflight) : inflight[i].kind # "fetch"

\* C8: for a successful fetch response whose entries are an array, every record
\* normalises to an entry or to null, and the Year Collection set from it is
\* the normalised records that are objects with a boolean isSick and a
\* YYYY-MM-DD key in dateKey or as the UTC day of date, in the order of the
\* response; the other records are dropped and the error message is untouched.
FetchKeepsWellFormed ==
    [][\A i \in 1..Len(inflight), resp \in EntriesResponses :
          (IsArray(resp) /\ FetchOk(i, resp)) =>
              LET canonical(key) == /\ key.t = "str"
                                    /\ Len(key.s) = 10
                                    /\ \A c \in 1..10 : IF c \in {5, 8} THEN key.s[c] = "-"
                                                        ELSE IsDigit(key.s[c])
                  keyOfDate(raw) == IF Truthy(Get(raw, "date")) /\ NewDate(Get(raw, "date")).t = "time"
                                    THEN Str(toDateKey(NewDate(Get(raw, "date"))))
                                    ELSE Undef
                  wellFormed(raw) == /\ raw.t = "obj"
                                     /\ Get(raw, "isSick").t = "bool"
                                     /\ canonical(Get(raw, "dateKey")) \/ canonical(keyOfDate(raw))
                  kept == SelectSeq(resp.items, wellFormed)
              IN  /\ \A k \in 1..Len(resp.items) : normalizeEntry(resp.items[k]).t \in {"null", "entry"}
                  /\ entries' = [k \in 1..Len(kept) |-> normalizeEntry(kept[k])]
                  /\ error' = error]_vars

\* a response with a record whose day came from its date: the one entry shown
FetchedByDate ==
    /\ ~busy
    /\ error = ""
    /\ Len(entries) = 1
    /\ entries[1].dateKey = toDateKey(Day20240601)
    /\ ~entries[1].isSick
    /\ entries[1].severity = Null

-----------------------------------------------------------------------------
(* Properties of editing and saving (SpecEdit) *)

\* C1: on submit, if the collection has no entry of the selected year with the
\* form date's dateKey, the save is issued at once and no confirmation opens;
\* if it has one, the update confirmation opens on that entry and nothing is
\* saved yet.
SubmitConfirmsCollisions ==
    [][onSubmit =>
          LET key == toDateKey(formDate)
              prior == {e \in Range(entries) :
                           e.dateKey = key /\ DecimalValue(SubSeq(key, 1, 4)) = selectedYear}
          IN  IF prior = {}
              THEN /\ updatePreview' = updatePreview
                   /\ Len(inflight') = Len(inflight) + 1
                   /\ inflight'[Len(inflight')].kind = "save"
                   /\ inflight'[Len(inflight')].payload = formPayload
              ELSE /\ updatePreview' # Null
                   /\ updatePreview'.existing \in prior
                   /\ updatePreview'.dateKey = key
                   /\ updatePreview'.next = formPayload
                   /\ inflight' = inflight]_vars

\* the update confirmation is open on the entry of the form's date
UpdateConfirmationOpen ==
    /\ updatePreview # Null
    /\ updatePreview.dateKey = toDateKey(formDate)
    /\ updatePreview.existing \in Range(entries)
    /\ ~busy

\* C2: after commitSave merges the saved entry with dateKey K, the collection
\* has exactly one entry with K, the saved one, keeps every other entry, and
\* is in ascending order of date.
MergeKeepsCollectionSorted ==
    [][\A i \in 1..Len(inflight) :
          (inflight[i].kind = "save" /\ SaveOk(i, storedEntry(inflight[i].payload))) =>
              LET saved == normalizeEntry(storedEntry(inflight[i].payload))
                  others == SelectSeq(entries, LAMBDA e : e.dateKey # saved.dateKey)
                  dated(e) == NewDate(e.date).t = "time"
              IN  /\ Cardinality({p \in 1..Len(entries') : entries'[p].dateKey = saved.dateKey}) = 1
                  /\ saved \in Range(entries')
                  /\ Len(entries') = Len(others) + 1
                  /\ Range(others) \subseteq Range(entries')
                  /\ \A p, q \in 1..Len(entries') :
                         (p < q /\ dated(entries'[p]) /\ dated(entries'[q]))
                             => compareByDate(entries'[p], entries'[q]) <= 0]_vars

\* C4: whenever no entries fetch is in flight, every entry of the collection
\* has a dateKey of the selected year.
EntriesOfSelectedYear ==
    (\A i \in 1..Len(inflight) : inflight[i].kind # "fetch")
        => \A e \in Range(entries) : DecimalValue(SubSeq(e.dateKey, 1, 4)) = selectedYear

\* C5: an entry whose dateKey lies in another year than the selected one is no
\* collision: whenever the update confirmation opens (on a submit) or an
\* existing entry is shown (on a date selection), that entry is of the
\* selected year.
OtherYearNeverCollides ==
    [][/\ (updatePreview' # updatePreview /\ updatePreview' # Null)
              => DecimalValue(SubSeq(updatePreview'.existing.dateKey, 1, 4)) = selectedYear
       /\ (existingEntryNotice' # existingEntryNotice /\ existingEntryNotice' # Null)
              => DecimalValue(SubSeq(existingEntryNotice'.dateKey, 1, 4)) = selectedYear]_vars

\* a day of another year was submitted while the collection held an entry of
\* that day: the save went out and no confirmation opened
OtherYearDaySavedAgain ==
    /\ updatePreview = Null
    /\ \E i \in 1..Len(inflight) :
          /\ inflight[i].kind = "save"
          /\ inflight[i].year = selectedYear
          /\ \E e \in Range(entries) :
                /\ e.dateKey = toDateKey(NewDate(inflight[i].payload.date))
                /\ DecimalValue(SubSeq(e.dateKey, 1, 4)) # selectedYear

\* C6 as stated: when a save fails (saveEntry throws, or the returned entry does
\* not normalise) the collection and the known years are what they were when
\* the save was issued, and the error message is not empty.
FailedSaveRestoresIssueState ==
    [][\A i \in 1..Len(inflight) :
          (\/ \E text \in SaveErrors : SaveFail(i, text)
           \/ /\ inflight[i].kind = "save"
              /\ inflight' = Remove(inflight, i)
              /\ \E entry \in SaveResponses(inflight[i].payload) :
                    ~Truthy(normalizeEntry(entry)) /\ SaveOk(i, entry))
          => /\ entries' = inflight[i].issuedEntries
             /\ yearsFromApi' = inflight[i].issuedYears
             /\ error' # ""]_vars

\* C6: the handling of a failed save (saveEntry throws, or the returned entry
\* does not normalise) leaves the collection and the known years as they were
\* just before it, and sets an error message that is not empty.
FailedSaveChangesNothing ==
    [][\A i \in 1..Len(inflight) :
          (\/ \E text \in SaveErrors : SaveFail(i, text)
           \/ /\ inflight[i].kind = "save"
              /\ inflight' = Remove(inflight, i)
              /\ \E entry \in SaveResponses(inflight[i].payload) :
                    ~Truthy(normalizeEntry(entry)) /\ SaveOk(i, entry))
          => /\ entries' = entries
             /\ yearsFromApi' = yearsFromApi
             /\ error' # ""]_vars

\* a save has failed over a collection that holds entries
SaveFailureShown ==
    /\ error \in {Message(text, "Failed to save entry") : text \in SaveErrors}
                 \cup {"Invalid entry returned by server."}
    /\ Len(entries) > 0
    /\ ~busy
    /\ Len(inflight) = 0

-----------------------------------------------------------------------------
(* Properties of the entries held and sent *)

\* C11: in every reachable state every entry of the collection, and every save
\* payload sent, has a severity that is an integer 1..5 when isSick is true and
\* null when isSick is false, whatever severities the service returned.
SeverityInRangeIffSick ==
    LET fits(sick, sev) == IF sick THEN sev.t = "num" /\ sev.n \in 1..5 ELSE sev = Null
    IN  /\ \A e \in Range(entries) : fits(e.isSick, e.severity)
        /\ \A i \in 1..Len(inflight) :
              inflight[i].kind = "save"
                  => fits(inflight[i].payload.isSick, inflight[i].payload.severity)

\* C12: the dateKey of every entry of the collection is the YYYY-MM-DD string
\* of the UTC year, month and day of the entry's date.
DateKeyIsUtcDayOfDate ==
    \A e \in Range(entries) :
        /\ NewDate(e.date).t = "time"
        /\ e.dateKey = toDateKey(NewDate(e.date))

-----------------------------------------------------------------------------
(* Properties of the year grid (SpecGrid) *)

\* C13: the grid of year Y has as many non-empty slots as Y has days (366 in a
\* leap year of the Gregorian rule, else 365) and their dates are the days of
\* Y, each once, in ascending order of the flat index; the data points of the
\* calendar chart are the same days in the same order.
GridHoldsDaysOfYear ==
    grid # Pending =>
        LET weeks == grid.weeks
            flat == [f \in 0..(7 * Cardinality(DOMAIN weeks) - 1) |-> weeks[f \div 7].days[f % 7]]
            filled == {f \in DOMAIN flat : flat[f] # Null}
            lowest == CHOOSE f \in filled : \A g \in filled : f <= g
            first == DaysFromCivil(gridYear, 1, 1)
            count == IF (gridYear % 4 = 0 /\ gridYear % 100 # 0) \/ gridYear % 400 = 0
                     THEN 366 ELSE 365
        IN  /\ Cardinality(filled) = count
            /\ filled = lowest..(lowest + count - 1)
            /\ \A f \in filled : flat[f].date = Time(first + f - lowest, 0)
            /\ DOMAIN grid.dataPoints = 1..count
            /\ \A i \in 1..count : grid.dataPoints[i][1] = toDateKey(Time(first + i - 1, 0))

\* the grid of 2000, a leap year by the rule of the centuries, with 29 February
LeapCenturyGrid ==
    /\ grid # Pending
    /\ gridYear = 2000
    /\ \E w \in DOMAIN grid.weeks, d \in 0..6 :
          /\ grid.weeks[w].days[d] # Null
          /\ grid.weeks[w].days[d].dateKey = toDateKey(DateUTC(2000, 1, 29))

\* C14: for an entry E whose dateKey lies inside year Y, the grid of (Y, [E])
\* has exactly one slot whose entry is E, that slot's dateKey is E.dateKey, and
\* every other slot has the entry null.
EntryInExactlyOneSlot ==
    (grid # Pending /\ Len(gridEntries) = 1
        /\ DecimalValue(SubSeq(gridEntries[1].dateKey, 1, 4)) = gridYear)
    => LET E == gridEntries[1]
           slots == {wd \in (DOMAIN grid.weeks) \X (0..6) : grid.weeks[wd[1]].days[wd[2]] # Null}
           slot(wd) == grid.weeks[wd[1]].days[wd[2]]
           holding == {wd \in slots : slot(wd).entry = E}
       IN  /\ Cardinality(holding) = 1
           /\ \A wd \in holding : slot(wd).dateKey = E.dateKey
           /\ \A wd \in slots \ holding : slot(wd).entry = Null

\* the entry of 31 December sits in the slot of 31 December
EntryOnLastDay ==
    /\ grid # Pending
    /\ Len(gridEntries) = 1
    /\ gridEntries[1].dateKey = toDateKey(DateUTC(gridYear, 11, 31))
    /\ \E w \in DOMAIN grid.weeks, d \in 0..6 :
          /\ grid.weeks[w].days[d] # Null
          /\ grid.weeks[w].days[d].entry = gridEntries[1]
          /\ grid.weeks[w].days[d].dateKey = toDateKey(DateUTC(gridYear, 11, 31))

\* C15: the 12 spans [startWeek, startWeek + spanWeeks) of the month layout
\* are contiguous and do not overlap (each starts where the one before ends),
\* and they cover every week column that holds a day of the year.
MonthSpansContiguous ==
    grid # Pending =>
        LET layout == grid.monthLayout
            span(m) == layout[m].startWeek..(layout[m].startWeek + layout[m].spanWeeks - 1)
        IN  /\ \A m \in 1..11 :
                  layout[m].startWeek = layout[m - 1].startWeek + layout[m - 1].spanWeeks
            /\ \A m, n \in 0..11 : m # n => span(m) \cap span(n) = {}
            /\ \A w \in DOMAIN grid.weeks :
                  (\E d \in 0..6 : grid.weeks[w].days[d] # Null) => \E m \in 0..11 : w \in span(m)

\* C16: every week column has exactly the 7 slots of rows 0..6, every
\* non-empty slot of row d holds a date whose UTC weekday is d (0 = Sunday),
\* and the empty slots at the head of week 0 are as many as the UTC weekday of
\* 1 January.
RowsAreWeekdays ==
    grid # Pending =>
        LET weekday(day) == (day + 4) % 7
            jan1 == DaysFromCivil(gridYear, 1, 1)
        IN  /\ \A w \in DOMAIN grid.weeks :
                  /\ DOMAIN grid.weeks[w].days = 0..6
                  /\ \A d \in 0..6 :
                        grid.weeks[w].days[d] # Null
                            => weekday(grid.weeks[w].days[d].date.day) = d
            /\ \A d \in 0..6 : (grid.weeks[0].days[d] = Null) = (d < weekday(jan1))

\* the grid of 2028, whose 1 January is a Saturday: six empty slots, then the day
SaturdayStartGrid ==
    /\ grid # Pending
    /\ gridYear = 2028
    /\ \A d \in 0..5 : grid.weeks[0].days[d] = Null
    /\ grid.weeks[0].days[6] # Null
    /\ grid.weeks[0].days[6].dateKey = toDateKey(DateUTC(2028, 0, 1))

\* C17: the grid has 52 or 53 week columns.
WeekCount52Or53 ==
    grid # Pending => Cardinality(DOMAIN grid.weeks) \in {52, 53}

-----------------------------------------------------------------------------
(* Properties of the entry form and the update dialog (SpecEdit) *)

\* C18: every selection of a date, in the date picker or by a click on the
\* heatmap, leaves the form with isSick and severity of the collection's entry
\* of that date if there is one (severity 1 where the entry has none), and with
\* the defaults isSick = false, severity = 1 if there is none, whatever the
\* form held before.
SelectPrefillsOrResets ==
    [][((\E day \in PickDays : PickDate(day))
            \/ (\E key \in heatmapKeys(selectedYear) : HeatmapDayClick(key))) =>
          LET key == toDateKey(formDate')
              found == {e \in Range(entries) : e.dateKey = key}
          IN  IF found # {}
              THEN \E e \in found : isSick' = e.isSick /\ severity' = Or(e.severity, Num(1))
              ELSE isSick' = FALSE /\ severity' = Num(1)]_vars

\* C19: a step that closes the update dialog without a response having arrived
\* (Cancel) leaves the collection, the known years and the form's date, isSick
\* and severity as they were, and sends no request.
CancelChangesNothing ==
    [][(updatePreview # Null /\ updatePreview' = Null /\ inflight' = inflight) =>
          /\ entries' = entries
          /\ yearsFromApi' = yearsFromApi
          /\ formDate' = formDate
          /\ isSick' = isSick
          /\ severity' = severity
          /\ issued' = issued]_vars

\* the update dialog is open on a sick entry of the collection, the form holds
\* that entry's values, and no save has been sent: Cancel is what closes it
CancellableUpdateOfSickDay ==
    /\ updatePreview # Null
    /\ updatePreview.existing \in Range(entries)
    /\ updatePreview.existing.isSick
    /\ isSick
    /\ \A i \in 1..Len(inflight) : inflight[i].kind # "save"

-----------------------------------------------------------------------------
(* Properties of requests in flight *)

\* C21: the response of a fetch sets the collection to the entries of the year
\* that fetch asked for, whatever the selected year is by then; so after a
\* change from year A to year B with A's response arriving last, the selected
\* year is B, nothing is in flight and the collection holds A's entries.
StaleResponseOverwrites ==
    [][\A i \in 1..Len(inflight) :
          (inflight[i].kind = "fetch" /\ FetchOk(i, StoredOfYear(inflight[i].year))) =>
              entries' = normalizeAll(StoredOfYear(inflight[i].year).items)]_vars

\* the year before is selected, nothing is in flight, and the collection holds
\* the entries of the year the page started with
StaleYearShown ==
    /\ selectedYear = nowYear - 1
    /\ inflight = <<>>
    /\ ~busy
    /\ entries # <<>>
    /\ entries = normalizeAll(StoredOfYear(nowYear).items)
    /\ entries # normalizeAll(StoredOfYear(selectedYear).items)

\* C22: in every reachable state in which a fetchEntriesByYear or saveEntry
\* request is in flight, busy is true.
BusyWhileInFlight == inflight # <<>> => busy

\* C26: a save is issued only when no fetch of entries and no other save is in
\* flight.
NoSaveWhileInFlight ==
    [][(Len(inflight') = Len(inflight) + 1 /\ inflight'[Len(inflight')].kind = "save") =>
          inflight = <<>>]_vars

\* C24: a year enters the known years only with the response of fetchYears, or
\* with the response of a save whose entry has a date of that year.
KnownYearsWereReported ==
    [][\A y \in Range(yearsFromApi') \ Range(yearsFromApi) :
          \/ yearsPending /\ ~yearsPending'
          \/ \E i \in 1..Len(inflight) :
                /\ inflight[i].kind = "save"
                /\ inflight' = Remove(inflight, i)
                /\ getUTCFullYear(NewDate(inflight[i].payload.date)) = y]_vars

\* C25: a click on the heatmap day with dateKey K leaves the form date with
\* dateKey K, whatever the client's offset from UTC is.
DayClickSelectsClickedDay ==
    [][\A key \in heatmapKeys(selectedYear) :
          HeatmapDayClick(key) => toDateKey(formDate') = key]_vars

\* C28: if no request stays unanswered forever, every state with busy true is
\* followed by a state with busy false; and the response of a save whose entry
\* normalises leaves the update dialog closed and busy false.
EditingReturnsToIdle ==
    /\ busy ~> ~busy
    /\ [][\A i \in 1..Len(inflight) :
             (inflight[i].kind = "save" /\ SaveOk(i, storedEntry(inflight[i].payload))) =>
                 (updatePreview' = Null /\ ~busy')]_vars

\* a confirmed update has been merged: the selected year's collection holds the
\* stored entry in place of the fetched one of that day, next to the other
\* fetched entry, the dialog is closed and nothing is in flight
UpdateMergedAndIdle ==
    /\ selectedYear = nowYear
    /\ inflight = <<>>
    /\ ~busy
    /\ updatePreview = Null
    /\ normalizeEntryOf(RecNoDate0305) \in Range(entries)
    /\ \E e \in Range(entries) :
          e.dateKey = toDateKey(Day20240601) /\ e.id = Str(<<"s">>)

-----------------------------------------------------------------------------
(* Properties of the session (SpecAuth) *)

\* C23: while nobody is logged in (after a logout or a failed getMe, until the
\* next login or signup) neither store holds a token or a user record,
\* whatever getMe responses arrive.
StoresEmptyWhileLoggedOut ==
    auth.token = Null => (localStore = NoAuth /\ cookieStore = NoAuth)

\* C27: the failure of a getMe of a token that is not the session's token any
\* more leaves the auth state and both stores as they are.
StaleGetMeFailureIgnored ==
    [][\A i \in 1..Len(getMeInflight) :
          (auth.token # Null /\ getMeInflight[i] # auth.token /\ GetMeFail(i)) =>
              UNCHANGED <<auth, localStore, cookieStore>>]_vars

====
